---- MODULE Spec2Model ----
(***************************************************************************)
(* Connectivity bootstrap of the Pico W application                        *)
(* (src/src/micropython_default): the env/secrets file, the WLAN interface *)
(* control functions of lib/project/connection.py and the main coroutine   *)
(* of main.py.                                                             *)
(*                                                                         *)
(* Text is modelled as a sequence of tokens.  A token is an indivisible    *)
(* run of characters; the names of the secrets are tokens, so Python's     *)
(* substring test `name in line` is token membership.  Python's None is    *)
(* kept apart from every string, the string 'None' included.               *)
(***************************************************************************)
EXTENDS Integers, Sequences, FiniteSets, TLC

VARIABLES
    fileExists,   \* env/secrets.py is on the flash
    secrets,      \* its lines, in file order
    uid,          \* machine.unique_id(): the device's bytes
    WLAN,         \* async_main's WLAN: the interface it holds
    WLAN_MODE,    \* async_main's WLAN_MODE
    iface,        \* the WLAN of the connection function that is running
    pc,           \* position of the single thread of control
    ret,          \* return positions of the calls in progress
    poll,         \* polls made by the bounded wait in progress
    call,         \* what the acquisition in progress has done so far
    raised,       \* the exception that is propagating or has escaped
    http,         \* the last request the provisioning server answered
    posts,        \* POST requests answered so far
    async_events, \* async_main's asyncio.Event flags
    gc,           \* the garbage_collector task
    app,          \* the Microdot server
    inflight      \* the connection functions that have not returned yet

vars == <<fileExists, secrets, uid, WLAN, WLAN_MODE, iface, pc, ret, poll,
          call, raised, http, posts, async_events, gc, app, inflight>>

---------------------------------------------------------------------------
(* Python values *)

None == [isNone |-> TRUE, s |-> <<>>]
Str(t) == [isNone |-> FALSE, s |-> t]

\* str.format's rendering of a value: None prints as the text None
Format(v) == IF v.isNone THEN <<"None">> ELSE v.s

\* `x in text` for a name x: the names are tokens of the text
Has(text, x) == \E i \in 1..Len(text) : text[i] = x

---------------------------------------------------------------------------
(* env/secrets.py *)

\* "{} = {}\n".format(name, value): an unquoted right-hand side
BareLine(name, v) == [name |-> name, quoted |-> FALSE, text |-> Format(v)]
\* "{} = '{}'\n".format(name, value): a quoted right-hand side
QuotedLine(name, v) == [name |-> name, quoted |-> TRUE, text |-> Format(v)]

\* `name in secret_lines[i]`: a substring test on the whole line
LineHas(line, name) == line.name = name \/ Has(line.text, name)

\* what executing the line binds its name to
LineValue(line) ==
    IF line.quoted THEN Str(line.text) ELSE None

SecretNames == <<"AP_SSID", "AP_PASSWORD", "WLAN_SSID", "WLAN_PASSWORD">>

\* the file create_secrets writes when there is none
BaselineFile == [i \in 1..Len(SecretNames) |-> BareLine(SecretNames[i], None)]

\* getattr(module, name, None) after importing the file: the last
\* assignment to name wins, None when there is none
RECURSIVE ModuleAttr(_, _, _)
ModuleAttr(lines, name, i) ==
    IF i = 0 THEN None
    ELSE IF lines[i].name = name THEN LineValue(lines[i])
    ELSE ModuleAttr(lines, name, i - 1)

\* dynamic_get_secret on an existing file: '' reads as None
dynamic_get_secret(lines, name) ==
    LET secret == ModuleAttr(lines, name, Len(lines))
    IN  IF ~secret.isNone /\ secret.s = <<>> THEN None ELSE secret

\* the normalisation at the head of dynamic_set_secret
Normal(v) == IF ~v.isNone /\ v.s = <<>> THEN None ELSE v

\* the lines dynamic_set_secret writes back
SetLines(lines, name, value) ==
    LET v == Normal(value)
        found == \E i \in 1..Len(lines) : LineHas(lines[i], name)
        patched == [i \in 1..Len(lines) |->
                      IF LineHas(lines[i], name)
                      THEN (IF v.isNone THEN BareLine(name, v)
                                        ELSE QuotedLine(name, v))
                      ELSE lines[i]]
    IN  IF found THEN patched ELSE Append(lines, QuotedLine(name, v))

\* create_secrets: the file dynamic_set_secret works on
create_secrets(exists, lines) == IF exists THEN lines ELSE BaselineFile

\* dynamic_set_secret: the file afterwards
dynamic_set_secret(exists, lines, name, value) ==
    SetLines(create_secrets(exists, lines), name, value)

\* Variant of the result that reports a write, whatever was written.
SetResultWritten(value) == TRUE

\* dynamic_set_secret's return value
SetResult(value) == ~Normal(value).isNone

---------------------------------------------------------------------------
(* The device identifier and the access-point credentials built from it *)

HexDigits == <<"0", "1", "2", "3", "4", "5", "6", "7",
               "8", "9", "a", "b", "c", "d", "e", "f">>

\* binascii.hexlify: two lower-case digits per byte
RECURSIVE hexlify(_)
hexlify(bytes) ==
    IF bytes = <<>> THEN <<>>
    ELSE <<HexDigits[(Head(bytes) \div 16) + 1],
           HexDigits[(Head(bytes) % 16) + 1]>> \o hexlify(Tail(bytes))

\* str.upper, a token at a time
UpperToken(t) ==
    CASE t = "a" -> "A" [] t = "b" -> "B" [] t = "c" -> "C"
      [] t = "d" -> "D" [] t = "e" -> "E" [] t = "f" -> "F"
      [] OTHER -> t
upper(text) == [i \in 1..Len(text) |-> UpperToken(text[i])]

PICO_ID(id) == upper(hexlify(id))
GeneratedSsid(id) == Str(<<"PICO-W-">> \o PICO_ID(id))
GeneratedPassword(id) == Str(PICO_ID(id))

---------------------------------------------------------------------------
(* Bounds of the model *)

\* POST /connection requests answered in one run
MaxPosts == 1

---------------------------------------------------------------------------
(* The values the environment supplies *)

\* machine.unique_id() of the devices considered (shortened to two bytes)
DeviceIds == {<<230, 97>>, <<11, 173>>}

\* network names and passwords an operator may use; one of each carries
\* the text of a secret's name
Ssids == {<<"HomeNet">>, <<"Net-", "AP_SSID">>, <<"Net-", "WLAN_PASSWORD">>}
Passwords == {<<"secret">>, <<"pw-", "WLAN_SSID">>}

\* what WLAN.scan() may report: any set of visible names, the empty name
\* of a hidden network included
ScanResults == SUBSET (Ssids \cup {<<>>})

\* the secrets files a device may be started with: each name has no line,
\* an unset line or a value
OptionalLine(name, values) ==
    {<<>>, <<BareLine(name, None)>>} \cup {<<QuotedLine(name, Str(v))>> : v \in values}
InitialFiles(id) ==
    {a \o b \o c \o d :
        a \in OptionalLine("AP_SSID", {GeneratedSsid(id).s}),
        b \in OptionalLine("AP_PASSWORD", {GeneratedPassword(id).s}),
        c \in OptionalLine("WLAN_SSID", Ssids \cup {<<>>}),
        d \in OptionalLine("WLAN_PASSWORD", Passwords)}

---------------------------------------------------------------------------
(* The WLAN interface object *)

STA_IF == "STA"
AP_IF == "AP"

\* no interface object yet
NoInterface ==
    [mode |-> "none", ssid |-> None, password |-> None, up |-> FALSE,
     link |-> FALSE, released |-> FALSE]

\* network.WLAN(mode) followed by WLAN.config(ssid=..., password=...)
NewInterface(m, ssid, password) ==
    [mode |-> m, ssid |-> ssid, password |-> password, up |-> FALSE,
     link |-> FALSE, released |-> FALSE]

\* WLAN.isconnected(), and WLAN.status() == network.STAT_GOT_IP
isconnected(w) == w.link

\* Variant of connection_issue without the access-point clause.
connection_issue_station(w, m) == m = STA_IF /\ ~isconnected(w)

\* connection_issue(WLAN, WLAN_MODE)
connection_issue(w, m) ==
    (m = AP_IF) \/ (m = STA_IF /\ ~isconnected(w))

\* range(5) of activate_interface and deactivate_interface
ActivePolls == 5
\* range(30) of connect_interface
ConnectPolls == 30

\* the record of a connection call: the function async_main called, the
\* secrets as it found them, and what it has done so far
NoCall ==
    [fn |-> "none",
     entry_ssid |-> None, entry_password |-> None,
     entry_ap_ssid |-> None, entry_ap_password |-> None,
     scans |-> 0,         \* WLAN.scan() calls
     shown |-> "unknown", \* "yes"/"no": the scan result held the SSID read
     available |-> FALSE, \* the SSID is in available_networks
     connects |-> 0,      \* WLAN.connect() calls
     connected |-> FALSE, \* a poll saw the connection
     resets |-> 0,        \* access_point_reset calls
     built |-> 0,         \* interfaces constructed
     failure |-> "none",  \* how connect_interface failed
     exception |-> "none"] \* what connect_interface raised

\* the record when get_network_interface starts on the given file
Entered(exists, lines) ==
    [NoCall EXCEPT
        !.fn = "get_network_interface",
        !.entry_ssid = IF exists THEN dynamic_get_secret(lines, "WLAN_SSID") ELSE None,
        !.entry_password = IF exists THEN dynamic_get_secret(lines, "WLAN_PASSWORD") ELSE None,
        !.entry_ap_ssid = IF exists THEN dynamic_get_secret(lines, "AP_SSID") ELSE None,
        !.entry_ap_password = IF exists THEN dynamic_get_secret(lines, "AP_PASSWORD") ELSE None]

---------------------------------------------------------------------------
(* Calls and returns of the single thread of control *)

Return == pc' = Head(ret) /\ ret' = Tail(ret)

\* an exception leaves the connection functions: it propagates to the
\* caller of get_network_interface
Raise(e) == raised' = e /\ pc' = "propagate" /\ inflight' = <<>>

---------------------------------------------------------------------------
(* get_network_interface, lines 229-271: the secrets are read, the access  *)
(* point credentials generated when one is unset, blank station            *)
(* credentials reset, and the interface constructed, configured and asked  *)
(* to activate.                                                            *)

\* the access-point credentials the function goes on with
ApCredentials(lines, id) ==
    LET AP_SSID == dynamic_get_secret(lines, "AP_SSID")
        AP_PASSWORD == dynamic_get_secret(lines, "AP_PASSWORD")
    IN  IF AP_SSID.isNone \/ AP_PASSWORD.isNone
        THEN [ssid |-> GeneratedSsid(id), password |-> GeneratedPassword(id)]
        ELSE [ssid |-> AP_SSID, password |-> AP_PASSWORD]

\* Variant of ApDeclared that keeps the generated credentials in the local
\* variables only.
ApUndeclared(lines, id) == lines

\* Variant of ApDeclared that writes only the credential that reads unset.
ApDeclaredUnsetOnly(lines, id) ==
    LET ssid_set ==
            IF dynamic_get_secret(lines, "AP_SSID").isNone
            THEN dynamic_set_secret(TRUE, lines, "AP_SSID", GeneratedSsid(id))
            ELSE lines
    IN  IF dynamic_get_secret(lines, "AP_PASSWORD").isNone
        THEN dynamic_set_secret(TRUE, ssid_set, "AP_PASSWORD",
                                GeneratedPassword(id))
        ELSE ssid_set

\* the file after the "initial declaration" block, lines 240-251
ApDeclared(lines, id) ==
    IF dynamic_get_secret(lines, "AP_SSID").isNone
       \/ dynamic_get_secret(lines, "AP_PASSWORD").isNone
    THEN dynamic_set_secret(TRUE,
            dynamic_set_secret(TRUE, lines, "AP_SSID", GeneratedSsid(id)),
            "AP_PASSWORD", GeneratedPassword(id))
    ELSE lines

\* the mode selected from the WLAN_SSID read on entry, lines 256-264
SelectMode(WLAN_SSID) ==
    IF WLAN_SSID.isNone \/ Len(WLAN_SSID.s) < 1 THEN AP_IF ELSE STA_IF

\* the file after the mode selection: blank station secrets are reset
StationReset(lines, WLAN_SSID) ==
    IF SelectMode(WLAN_SSID) = AP_IF
    THEN dynamic_set_secret(TRUE,
            dynamic_set_secret(TRUE, lines, "WLAN_SSID", None),
            "WLAN_PASSWORD", None)
    ELSE lines

get_network_interface ==
    /\ pc = "get_network_interface"
    /\ IF ~fileExists
       THEN \* import env.secrets fails in the first dynamic_get_secret
            /\ Raise("ImportError")
            /\ call' = Entered(fileExists, secrets)
            /\ UNCHANGED <<secrets, iface, poll, ret>>
       ELSE LET WLAN_SSID == dynamic_get_secret(secrets, "WLAN_SSID")
                ap == ApCredentials(secrets, uid)
                m == SelectMode(WLAN_SSID)
            IN  /\ secrets' = StationReset(ApDeclared(secrets, uid), WLAN_SSID)
                /\ iface' = [NewInterface(m, ap.ssid, ap.password)
                                EXCEPT !.up = TRUE]
                /\ call' = [Entered(fileExists, secrets) EXCEPT !.built = 1]
                /\ poll' = 0
                /\ pc' = "activate_interface"
                /\ ret' = <<"connect_interface">> \o ret
                /\ UNCHANGED <<raised, inflight>>
    /\ UNCHANGED <<fileExists, uid, WLAN, WLAN_MODE, http, posts>>
    /\ UNCHANGED <<async_events, gc, app>>

---------------------------------------------------------------------------
(* activate_interface, lines 80-88: one pass of the bounded wait *)

\* Variant of activate_interface without the handler of line 87: the
\* StopIteration of the sixth next() leaves the function.
activate_interface_raising ==
    /\ pc = "activate_interface"
    /\ \/ /\ poll < ActivePolls
          /\ poll' = 0
          /\ Return
          /\ UNCHANGED <<raised, inflight>>
       \/ /\ poll < ActivePolls
          /\ ~isconnected(iface)
          /\ poll' = poll + 1
          /\ UNCHANGED <<pc, ret, raised, inflight>>
       \/ /\ poll = ActivePolls
          /\ poll' = 0
          /\ Raise("StopIteration")
          /\ UNCHANGED ret
    /\ UNCHANGED iface
    /\ UNCHANGED <<fileExists, secrets, uid, WLAN, WLAN_MODE, call, http,
                   posts>>
    /\ UNCHANGED <<async_events, gc, app>>

activate_interface ==
    /\ pc = "activate_interface"
    /\ \/ \* WLAN.active() is true, or the status is STAT_GOT_IP: break
          /\ poll < ActivePolls
          /\ poll' = 0
          /\ Return
       \/ \* neither: sleep(1) and ask again
          /\ poll < ActivePolls
          /\ ~isconnected(iface)
          /\ poll' = poll + 1
          /\ UNCHANGED <<pc, ret>>
       \/ \* StopIteration: the timeout is logged and the function returns
          /\ poll = ActivePolls
          /\ poll' = 0
          /\ Return
    /\ UNCHANGED iface
    /\ UNCHANGED <<fileExists, secrets, uid, WLAN, WLAN_MODE, call, raised,
                   http, posts>>
    /\ UNCHANGED <<async_events, gc, app, inflight>>

---------------------------------------------------------------------------
(* connect_interface, lines 130-156: credentials, scan and connect request *)

\* the names of a scan result, unnamed networks left out
available_networks(found) == {name \in found : name # <<>>}

\* Variant of Exception in which the timeout raises WLANConnectionError too.
ExceptionAlike(why) == "WLANConnectionError"

\* what connect_interface raises: WLANConnectionError at lines 137, 142 and
\* 152, the StopIteration of next() re-raised at line 168
Exception(why) ==
    IF why = "timeout" THEN "StopIteration" ELSE "WLANConnectionError"

\* get_network_interface's handlers of WLANConnectionError, lines 279-281,
\* and of StopIteration, lines 282-287
ConnectionFailed(why) ==
    /\ call' = [call EXCEPT !.failure = why, !.resets = @ + 1,
                            !.exception = Exception(why)]
    /\ pc' = "access_point_reset"
    /\ inflight' = <<"get_network_interface", "access_point_reset">>
    /\ UNCHANGED <<raised, ret>>

\* the handlers of lines 153-156: OSError is caught, the message reads the
\* unbound name e, and the NameError leaves get_network_interface
OSErrorCaught ==
    /\ call' = [call EXCEPT !.failure = "OSError"]
    /\ Raise("NameError")
    /\ UNCHANGED ret

connect_interface ==
    /\ pc = "connect_interface"
    /\ LET WLAN_SSID == dynamic_get_secret(secrets, "WLAN_SSID")
       IN  \/ \* no SSID: WLANConnectionError before any scan
              /\ WLAN_SSID.isNone
              /\ ConnectionFailed("no credentials")
              /\ UNCHANGED iface
           \/ \* WLAN.scan() is called
              /\ ~WLAN_SSID.isNone
              /\ pc' = "scan"
              /\ call' = [call EXCEPT !.scans = @ + 1]
              /\ inflight' = Append(inflight, "connect_interface")
              /\ UNCHANGED <<raised, ret, iface>>
    /\ UNCHANGED <<fileExists, secrets, uid, WLAN, WLAN_MODE, poll, http, posts>>
    /\ UNCHANGED <<async_events, gc, app>>

\* what WLAN.scan() gives: OSError, or a set of networks, of which the
\* function keeps available_networks (line 139)
scan ==
    /\ pc = "scan"
    /\ LET WLAN_SSID == dynamic_get_secret(secrets, "WLAN_SSID")
       IN  \/ \* the radio raises OSError
              OSErrorCaught
           \/ \E found \in ScanResults :
                 /\ call' = [call EXCEPT
                        !.shown = IF WLAN_SSID.s \in found THEN "yes" ELSE "no",
                        !.available = WLAN_SSID.s \in available_networks(found)]
                 /\ pc' = "scanned"
                 /\ UNCHANGED <<raised, ret, inflight>>
    /\ UNCHANGED <<fileExists, secrets, uid, WLAN, WLAN_MODE, iface, poll,
                   http, posts>>
    /\ UNCHANGED <<async_events, gc, app>>

\* Variant of scanned without the test of line 140: the connect request is
\* made whatever the scan showed.
scanned_unchecked ==
    /\ pc = "scanned"
    /\ pc' = "connect"
    /\ call' = [call EXCEPT !.connects = @ + 1]
    /\ UNCHANGED <<raised, ret, inflight>>
    /\ UNCHANGED <<fileExists, secrets, uid, WLAN, WLAN_MODE, iface, poll,
                   http, posts>>
    /\ UNCHANGED <<async_events, gc, app>>

\* the test of line 140 and the connect request of line 147
scanned ==
    /\ pc = "scanned"
    /\ IF ~call.available
       THEN \* WLANConnectionError
            ConnectionFailed("ssid unavailable")
       ELSE \* WLAN.connect(WLAN_SSID, WLAN_PASSWORD) is called
            /\ pc' = "connect"
            /\ call' = [call EXCEPT !.connects = @ + 1]
            /\ UNCHANGED <<raised, ret, inflight>>
    /\ UNCHANGED <<fileExists, secrets, uid, WLAN, WLAN_MODE, iface, poll,
                   http, posts>>
    /\ UNCHANGED <<async_events, gc, app>>

\* what WLAN.connect() does
connect ==
    /\ pc = "connect"
    /\ \/ \* a station interface takes the request
          /\ iface.mode = STA_IF
          /\ pc' = "await_connection"
          /\ UNCHANGED <<call, raised, ret, inflight>>
       \/ \* TypeError (the interface is not in STA mode), lines 149-152
          ConnectionFailed("rejected")
       \/ \* OSError
          OSErrorCaught
    /\ UNCHANGED <<fileExists, secrets, uid, WLAN, WLAN_MODE, iface, poll,
                   http, posts>>
    /\ UNCHANGED <<async_events, gc, app>>

---------------------------------------------------------------------------
(* connect_interface, lines 158-168: the wait for the connection *)

\* Variant of ConnectionTimeout in which StopIteration is swallowed: the
\* unconnected station interface is returned as a success.
ConnectionTimeoutSwallowed ==
    /\ WLAN' = iface
    /\ WLAN_MODE' = iface.mode
    /\ Return
    /\ inflight' = <<>>
    /\ UNCHANGED <<iface, call, raised>>

\* get_network_interface's handler of StopIteration, lines 282-287
ConnectionTimeout ==
    /\ ConnectionFailed("timeout")
    /\ UNCHANGED <<iface, WLAN, WLAN_MODE>>

\* connect_interface returns and get_network_interface returns
\* WLAN, WLAN_MODE (line 278), which the caller assigns
StationReturned ==
    /\ WLAN' = iface'
    /\ WLAN_MODE' = iface.mode
    /\ Return
    /\ inflight' = <<>>

await_connection ==
    /\ pc = "await_connection"
    /\ \/ \* STAT_GOT_IP or isconnected(): break
          /\ poll < ConnectPolls
          /\ iface' = [iface EXCEPT !.link = TRUE]
          /\ call' = [call EXCEPT !.connected = TRUE]
          /\ poll' = 0
          /\ StationReturned
          /\ UNCHANGED raised
       \/ \* not connected: sleep(1) and ask again
          /\ poll < ConnectPolls
          /\ poll' = poll + 1
          /\ UNCHANGED <<pc, ret, iface, WLAN, WLAN_MODE, call, raised,
                         inflight>>
       \/ \* StopIteration is raised by next() and re-raised
          /\ poll = ConnectPolls
          /\ poll' = 0
          /\ ConnectionTimeout
    /\ UNCHANGED <<fileExists, secrets, uid, http, posts>>
    /\ UNCHANGED <<async_events, gc, app>>

---------------------------------------------------------------------------
(* access_point_reset, lines 183-192 *)

\* WLAN.disconnect() and the WLAN.active(False) of deactivate_interface
access_point_reset ==
    /\ pc = "access_point_reset"
    /\ iface' = [iface EXCEPT !.link = FALSE, !.up = FALSE]
    /\ poll' = 0
    /\ pc' = "deactivate_interface"
    /\ ret' = <<"rebuild">> \o ret
    /\ UNCHANGED <<fileExists, secrets, uid, WLAN, WLAN_MODE, call, raised,
                   http, posts>>
    /\ UNCHANGED <<async_events, gc, app, inflight>>

\* deactivate_interface, lines 104-112: one pass of the bounded wait
deactivate_interface ==
    /\ pc = "deactivate_interface"
    /\ \/ \* WLAN.active() is false: break
          /\ poll < ActivePolls
          /\ poll' = 0
          /\ Return
       \/ \* still active: sleep(1) and ask again
          /\ poll < ActivePolls
          /\ poll' = poll + 1
          /\ UNCHANGED <<pc, ret>>
       \/ \* StopIteration: logged, the function returns
          /\ poll = ActivePolls
          /\ poll' = 0
          /\ Return
    /\ UNCHANGED iface
    /\ UNCHANGED <<fileExists, secrets, uid, WLAN, WLAN_MODE, call, raised,
                   http, posts>>
    /\ UNCHANGED <<async_events, gc, app, inflight>>

\* Variant of AccessPoint without the WLAN.config call of line 190.
AccessPointUnconfigured(lines) == NewInterface(AP_IF, None, None)

\* the interface access_point_reset constructs and configures, 187-190
AccessPoint(lines) ==
    NewInterface(AP_IF, dynamic_get_secret(lines, "AP_SSID"),
                 dynamic_get_secret(lines, "AP_PASSWORD"))

\* Variant of rebuild that treats the stored password as single-use and
\* unsets it once the interface is configured.
rebuild_forgetting ==
    /\ pc = "rebuild"
    /\ iface' = [AccessPoint(secrets) EXCEPT !.up = TRUE]
    /\ secrets' = dynamic_set_secret(TRUE, secrets, "AP_PASSWORD", None)
    /\ call' = [call EXCEPT !.built = @ + 1]
    /\ poll' = 0
    /\ pc' = "activate_interface"
    /\ ret' = <<"reset_return">> \o ret
    /\ UNCHANGED <<fileExists, uid, WLAN, WLAN_MODE, raised, http, posts>>
    /\ UNCHANGED <<async_events, gc, app, inflight>>

\* WLAN.deinit(), then the new interface is constructed, configured from
\* the stored credentials and asked to activate
rebuild ==
    /\ pc = "rebuild"
    /\ iface' = [AccessPoint(secrets) EXCEPT !.up = TRUE]
    /\ call' = [call EXCEPT !.built = @ + 1]
    /\ poll' = 0
    /\ pc' = "activate_interface"
    /\ ret' = <<"reset_return">> \o ret
    /\ UNCHANGED <<fileExists, secrets, uid, WLAN, WLAN_MODE, raised, http,
                   posts>>
    /\ UNCHANGED <<async_events, gc, app, inflight>>

\* return WLAN, network.AP_IF; the caller assigns both
reset_return ==
    /\ pc = "reset_return"
    /\ WLAN' = iface
    /\ WLAN_MODE' = AP_IF
    /\ Return
    /\ inflight' = <<>>
    /\ UNCHANGED <<async_events, gc, app>>
    /\ UNCHANGED <<fileExists, secrets, uid, iface, poll, call, raised, http,
                   posts>>

---------------------------------------------------------------------------
(* The provisioning server's POST /connection, main.py lines 181-191 *)

\* the last request answered; before is the WLAN_SSID stored when it came
NoRequest ==
    [route |-> "none", ssid |-> None, password |-> None, status |-> 0,
     before |-> None]

\* request.form.get(...): a missing field reads None
FormValues(texts) == {None, Str(<<>>)} \cup {Str(t) : t \in texts}

\* the file after the handler's two dynamic_set_secret calls
ConnectionStored(exists, lines, ssid, password) ==
    dynamic_set_secret(TRUE,
        dynamic_set_secret(exists, lines, "WLAN_PASSWORD", password),
        "WLAN_SSID", ssid)

\* the status the handler answers with
ConnectionStatus(ssid) == IF SetResult(ssid) THEN 205 ELSE 400

\* Variant of set_connection that shuts the server down after an accepted
\* request, as GET /reset does.
set_connection_stopping(ssid, password) ==
    /\ pc = "serving"
    /\ posts < MaxPosts
    /\ secrets' = ConnectionStored(fileExists, secrets, ssid, password)
    /\ fileExists' = TRUE
    /\ http' = [route |-> "/connection", ssid |-> ssid, password |-> password,
                status |-> ConnectionStatus(ssid),
                before |-> IF fileExists
                           THEN dynamic_get_secret(secrets, "WLAN_SSID")
                           ELSE None]
    /\ posts' = posts + 1
    /\ IF SetResult(ssid)
       THEN /\ pc' = "get_network_interface"
            /\ ret' = <<"provision">>
            /\ app' = "idle"
            /\ inflight' = <<"get_network_interface">>
       ELSE UNCHANGED <<pc, ret, app, inflight>>
    /\ UNCHANGED <<uid, WLAN, WLAN_MODE, iface, poll, call, raised>>
    /\ UNCHANGED <<async_events, gc>>

set_connection(ssid, password) ==
    /\ pc = "serving"
    /\ posts < MaxPosts
    /\ secrets' = ConnectionStored(fileExists, secrets, ssid, password)
    /\ fileExists' = TRUE
    /\ http' = [route |-> "/connection", ssid |-> ssid, password |-> password,
                status |-> ConnectionStatus(ssid),
                before |-> IF fileExists
                           THEN dynamic_get_secret(secrets, "WLAN_SSID")
                           ELSE None]
    /\ posts' = posts + 1
    /\ UNCHANGED <<uid, WLAN, WLAN_MODE, iface, pc, ret, poll, call, raised>>
    /\ UNCHANGED <<async_events, gc, app, inflight>>

\* Variant of reset that calls get_network_interface while the server still
\* serves.
reset_unstopped ==
    /\ pc = "serving"
    /\ http' = [NoRequest EXCEPT !.route = "/reset", !.status = 200]
    /\ pc' = "get_network_interface"
    /\ ret' = <<"provision">>
    /\ UNCHANGED <<fileExists, secrets, uid, WLAN, WLAN_MODE, iface, poll,
                   call, raised, posts>>
    /\ inflight' = <<"get_network_interface">>
    /\ UNCHANGED <<async_events, gc, app>>

\* GET /reset: request.app.shutdown(); microdot_server returns and
\* async_main calls get_network_interface (line 354)
reset ==
    /\ pc = "serving"
    /\ http' = [NoRequest EXCEPT !.route = "/reset", !.status = 200]
    /\ pc' = "get_network_interface"
    /\ ret' = <<"provision">>
    /\ UNCHANGED <<fileExists, secrets, uid, WLAN, WLAN_MODE, iface, poll,
                   call, raised, posts>>
    /\ app' = "idle"
    /\ inflight' = <<"get_network_interface">>
    /\ UNCHANGED <<async_events, gc>>

---------------------------------------------------------------------------
(* async_main, main.py lines 286-381 *)

\* lines 286-290: the first get_network_interface call
boot ==
    /\ pc = "boot"
    /\ pc' = "get_network_interface"
    /\ ret' = <<"main_start">>
    /\ UNCHANGED <<fileExists, secrets, uid, WLAN, WLAN_MODE, iface, poll,
                   call, raised, http, posts>>
    /\ inflight' = <<"get_network_interface">>
    /\ UNCHANGED <<async_events, gc, app>>

\* range(30) of synchronise_time
SyncAttempts == 30

\* lines 291-312: the event is created clear, garbage_collector is created
\* and runs for the first time during the sleep of line 309; with no
\* connection issue synchronise_time is awaited (line 314), with one the
\* Microdot instance is made (line 321) and the main loop entered
main_start ==
    /\ pc = "main_start"
    /\ call' = NoCall
    /\ async_events' = [connection_issue |-> FALSE]
    /\ gc' = "sleeping"
    /\ IF connection_issue(WLAN, WLAN_MODE)
       THEN /\ pc' = "main_loop"
            /\ app' = "idle"
            /\ UNCHANGED ret
       ELSE /\ pc' = "synchronise_time"
            /\ ret' = <<"main_start">>
            /\ UNCHANGED app
    /\ UNCHANGED inflight
    /\ UNCHANGED <<fileExists, secrets, uid, WLAN, WLAN_MODE, iface, poll,
                   raised, http, posts>>

\* synchronise_time returns result to async_main: at line 314 the event is
\* set on True and the Microdot instance made (line 321); at line 361 the
\* result only decides a message; either way the main loop is next
Synchronised(result) ==
    /\ poll' = 0
    /\ pc' = "main_loop"
    /\ ret' = <<>>
    /\ IF ret = <<"main_start">>
       THEN /\ async_events' = [connection_issue |-> result]
            /\ app' = "idle"
       ELSE UNCHANGED <<async_events, app>>
    /\ UNCHANGED raised

\* Variant of synchronise_time without the handler of line 116: the
\* StopIteration of the 31st next() leaves the coroutine.
synchronise_time_raising ==
    /\ pc = "synchronise_time"
    /\ \/ /\ poll < SyncAttempts
          /\ Synchronised(TRUE)
          /\ UNCHANGED inflight
       \/ /\ poll < SyncAttempts
          /\ poll' = poll + 1
          /\ UNCHANGED <<pc, ret, raised, async_events, app, inflight>>
       \/ /\ poll = SyncAttempts
          /\ poll' = 0
          /\ Raise("StopIteration")
          /\ UNCHANGED <<ret, async_events, app>>
    /\ UNCHANGED <<fileExists, secrets, uid, WLAN, WLAN_MODE, iface, call,
                   http, posts, gc>>

\* synchronise_time, lines 102-119: one pass of the bounded retry
synchronise_time ==
    /\ pc = "synchronise_time"
    /\ \/ \* ntptime.settime() succeeds: break, return True
          /\ poll < SyncAttempts
          /\ Synchronised(TRUE)
       \/ \* OSError: continue
          /\ poll < SyncAttempts
          /\ poll' = poll + 1
          /\ UNCHANGED <<pc, ret, raised, async_events, app>>
       \/ \* StopIteration: logged, return False
          /\ poll = SyncAttempts
          /\ Synchronised(FALSE)
    /\ UNCHANGED <<fileExists, secrets, uid, WLAN, WLAN_MODE, iface, call,
                   http, posts, gc, inflight>>

\* line 326: a connection issue starts the dwell sleep
main_loop ==
    /\ pc = "main_loop"
    /\ connection_issue(WLAN, WLAN_MODE)
    /\ pc' = "dwell"
    /\ UNCHANGED <<fileExists, secrets, uid, WLAN, WLAN_MODE, iface, ret,
                   poll, call, raised, http, posts>>
    /\ UNCHANGED <<async_events, gc, app, inflight>>

\* Variant of dwell that clears the event (line 336) before the check of
\* line 330.
dwell_clearing ==
    /\ pc = "dwell"
    /\ \/ \* resolved: continue
          /\ ~connection_issue(WLAN, WLAN_MODE)
          /\ async_events' = [connection_issue |-> FALSE]
          /\ pc' = "main_loop"
          /\ UNCHANGED <<iface, ret, call, inflight>>
       \/ \* a station interface is reset to an access point
          /\ connection_issue(WLAN, WLAN_MODE)
          /\ WLAN_MODE = STA_IF
          /\ async_events' = [connection_issue |-> FALSE]
          /\ iface' = WLAN
          /\ call' = [NoCall EXCEPT !.fn = "access_point_reset", !.resets = 1]
          /\ pc' = "access_point_reset"
          /\ ret' = <<"provision">>
          /\ inflight' = <<"access_point_reset">>
       \/ \* already an access point
          /\ connection_issue(WLAN, WLAN_MODE)
          /\ WLAN_MODE # STA_IF
          /\ async_events' = [connection_issue |-> FALSE]
          /\ pc' = "provision"
          /\ UNCHANGED <<iface, ret, call, inflight>>
    /\ UNCHANGED <<fileExists, secrets, uid, WLAN, WLAN_MODE, poll, raised,
                   http, posts>>
    /\ UNCHANGED <<gc, app>>

\* Variant of dwell without the test of line 338: access_point_reset is
\* called whatever the mode.
dwell_rebuilding ==
    /\ pc = "dwell"
    /\ \/ \* resolved: continue
          /\ ~connection_issue(WLAN, WLAN_MODE)
          /\ pc' = "main_loop"
          /\ UNCHANGED <<iface, ret, call, async_events, inflight>>
       \/ \* the interface is reset to an access point
          /\ connection_issue(WLAN, WLAN_MODE)
          /\ async_events' = [connection_issue |-> FALSE]
          /\ iface' = WLAN
          /\ call' = [NoCall EXCEPT !.fn = "access_point_reset", !.resets = 1]
          /\ pc' = "access_point_reset"
          /\ ret' = <<"provision">>
          /\ inflight' = <<"access_point_reset">>
    /\ UNCHANGED <<fileExists, secrets, uid, WLAN, WLAN_MODE, poll, raised,
                   http, posts>>
    /\ UNCHANGED <<gc, app>>

\* lines 330-339: the check after the dwell; the event is cleared when the
\* issue persists (line 336)
dwell ==
    /\ pc = "dwell"
    /\ \/ \* resolved: continue
          /\ ~connection_issue(WLAN, WLAN_MODE)
          /\ pc' = "main_loop"
          /\ UNCHANGED <<iface, ret, call, async_events, inflight>>
       \/ \* a station interface is reset to an access point
          /\ connection_issue(WLAN, WLAN_MODE)
          /\ WLAN_MODE = STA_IF
          /\ async_events' = [connection_issue |-> FALSE]
          /\ iface' = WLAN
          /\ call' = [NoCall EXCEPT !.fn = "access_point_reset", !.resets = 1]
          /\ pc' = "access_point_reset"
          /\ ret' = <<"provision">>
          /\ inflight' = <<"access_point_reset">>
       \/ \* already an access point
          /\ connection_issue(WLAN, WLAN_MODE)
          /\ WLAN_MODE # STA_IF
          /\ async_events' = [connection_issue |-> FALSE]
          /\ pc' = "provision"
          /\ UNCHANGED <<iface, ret, call, inflight>>
    /\ UNCHANGED <<fileExists, secrets, uid, WLAN, WLAN_MODE, poll, raised,
                   http, posts>>
    /\ UNCHANGED <<gc, app>>

\* line 349: the nested loop's condition; microdot_server is awaited while
\* the issue lasts (line 351); when it is over the event is set (line 358)
\* and, a second later, synchronise_time is awaited (line 361)
provision ==
    /\ pc = "provision"
    /\ IF connection_issue(WLAN, WLAN_MODE)
       THEN /\ pc' = "serving"
            /\ app' = "serving"
            /\ UNCHANGED <<async_events, ret>>
       ELSE /\ pc' = "synchronise_time"
            /\ ret' = <<"main_loop">>
            /\ async_events' = [connection_issue |-> TRUE]
            /\ UNCHANGED app
    /\ call' = NoCall
    /\ UNCHANGED <<gc, inflight>>
    /\ UNCHANGED <<fileExists, secrets, uid, WLAN, WLAN_MODE, iface, poll,
                   raised, http, posts>>

\* an exception out of get_network_interface: the first call is outside
\* the try block, the call of line 354 inside it (cleanup, lines 371-381)
propagate ==
    /\ pc = "propagate"
    /\ IF ret # <<>> /\ ret[Len(ret)] = "main_start"
       THEN /\ pc' = "exit"
            /\ UNCHANGED iface
       ELSE /\ pc' = "cleanup"
            /\ iface' = WLAN
    /\ ret' = <<>>
    /\ UNCHANGED <<fileExists, secrets, uid, WLAN, WLAN_MODE, poll, call,
                   raised, http, posts>>
    /\ UNCHANGED <<async_events, gc, app, inflight>>

\* Variant of cleanup without app.shutdown() (line 374).
cleanup_unstopped ==
    /\ pc = "cleanup"
    /\ iface' = [iface EXCEPT !.link = FALSE, !.up = FALSE]
    /\ poll' = 0
    /\ pc' = "deactivate_interface"
    /\ ret' = <<"terminate">>
    /\ UNCHANGED <<fileExists, secrets, uid, WLAN, WLAN_MODE, call, raised,
                   http, posts>>
    /\ UNCHANGED <<async_events, gc, app, inflight>>

\* the finally block: app.shutdown(), WLAN.disconnect() and
\* deactivate_interface(WLAN)
cleanup ==
    /\ pc = "cleanup"
    /\ app' = "idle"
    /\ iface' = [iface EXCEPT !.link = FALSE, !.up = FALSE]
    /\ poll' = 0
    /\ pc' = "deactivate_interface"
    /\ ret' = <<"terminate">>
    /\ UNCHANGED <<fileExists, secrets, uid, WLAN, WLAN_MODE, call, raised,
                   http, posts>>
    /\ UNCHANGED <<async_events, gc, inflight>>

\* WLAN.deinit(), ASYNC_MAIN LOOP TERMINATE
terminate ==
    /\ pc = "terminate"
    /\ iface' = [iface EXCEPT !.released = TRUE]
    /\ WLAN' = iface'
    /\ pc' = "exit"
    /\ UNCHANGED <<fileExists, secrets, uid, WLAN_MODE, ret, poll, call,
                   raised, http, posts>>
    /\ UNCHANGED <<async_events, gc, app, inflight>>

\* the radio: the link of the station async_main holds comes and goes
link_change ==
    /\ pc \in {"main_start", "main_loop", "dwell", "provision", "serving"}
    /\ WLAN_MODE = STA_IF
    /\ WLAN' = [WLAN EXCEPT !.link = ~@]
    /\ iface' = IF iface = WLAN THEN WLAN' ELSE iface
    /\ UNCHANGED <<fileExists, secrets, uid, WLAN_MODE, pc, ret, poll,
                   call, raised, http, posts>>
    /\ UNCHANGED <<async_events, gc, app, inflight>>

\* KeyboardInterrupt reaches the thread while it sleeps or awaits
interrupt ==
    /\ pc \in {"main_loop", "dwell", "serving", "activate_interface",
               "deactivate_interface", "await_connection"}
    /\ raised = "none"
    /\ Raise("KeyboardInterrupt")
    /\ poll' = 0
    /\ UNCHANGED <<fileExists, secrets, uid, WLAN, WLAN_MODE, iface, ret,
                   call, http, posts, async_events, gc, app>>

---------------------------------------------------------------------------
(* garbage_collector, main.py lines 122-133 *)

\* async_main is suspended in an await (lines 328, 351, 364)
Suspended == pc \in {"main_loop", "dwell", "serving"}

\* the asyncio.sleep(10) of the task is over
gc_timer ==
    /\ gc = "sleeping"
    /\ pc # "exit"
    /\ gc' = "due"
    /\ UNCHANGED <<fileExists, secrets, uid, WLAN, WLAN_MODE, iface, pc, ret,
                   poll, call, raised, http, posts, async_events, app,
                   inflight>>

\* the scheduler resumes the task: gc.collect(), then asyncio.sleep(10)
garbage_collector ==
    /\ gc = "due"
    /\ Suspended
    /\ gc' = "sleeping"
    /\ UNCHANGED <<fileExists, secrets, uid, WLAN, WLAN_MODE, iface, pc, ret,
                   poll, call, raised, http, posts, async_events, app,
                   inflight>>

---------------------------------------------------------------------------
(* The device from power-up *)

Init ==
    /\ uid \in DeviceIds
    /\ \/ fileExists = FALSE /\ secrets = <<>>
       \/ fileExists = TRUE /\ secrets \in InitialFiles(uid)
    /\ WLAN = NoInterface
    /\ WLAN_MODE = "none"
    /\ iface = NoInterface
    /\ pc = "boot"
    /\ ret = <<>>
    /\ poll = 0
    /\ call = NoCall
    /\ raised = "none"
    /\ http = NoRequest
    /\ posts = 0
    /\ async_events = [connection_issue |-> FALSE]
    /\ gc = "none"
    /\ app = "none"
    /\ inflight = <<>>

Next ==
    \/ boot
    \/ get_network_interface
    \/ activate_interface
    \/ connect_interface
    \/ scan
    \/ scanned
    \/ connect
    \/ await_connection
    \/ access_point_reset
    \/ deactivate_interface
    \/ rebuild
    \/ reset_return
    \/ \E ssid \in FormValues(Ssids), password \in FormValues(Passwords) :
          set_connection(ssid, password)
    \/ reset
    \/ main_start
    \/ synchronise_time
    \/ main_loop
    \/ dwell
    \/ provision
    \/ propagate
    \/ cleanup
    \/ terminate
    \/ link_change

Spec == Init /\ [][Next]_vars

---------------------------------------------------------------------------
(* The device with its second task and its operator: garbage_collector is  *)
(* scheduled, and KeyboardInterrupt can arrive                             *)

\* a file as create_secrets writes it, and one with every secret set
TaskFiles(id) ==
    {BaselineFile,
     <<QuotedLine("AP_SSID", GeneratedSsid(id)),
       QuotedLine("AP_PASSWORD", GeneratedPassword(id)),
       QuotedLine("WLAN_SSID", Str(<<"HomeNet">>)),
       QuotedLine("WLAN_PASSWORD", Str(<<"secret">>))>>}

InitTasks ==
    /\ Init
    /\ fileExists
    /\ secrets \in TaskFiles(uid)

NextTasks ==
    \/ boot
    \/ get_network_interface
    \/ activate_interface
    \/ connect_interface
    \/ scan
    \/ scanned
    \/ connect
    \/ await_connection
    \/ access_point_reset
    \/ deactivate_interface
    \/ rebuild
    \/ reset_return
    \/ \E ssid \in FormValues(Ssids), password \in FormValues(Passwords) :
          set_connection(ssid, password)
    \/ reset
    \/ main_start
    \/ synchronise_time
    \/ main_loop
    \/ dwell
    \/ provision
    \/ propagate
    \/ cleanup
    \/ terminate
    \/ link_change
    \/ interrupt
    \/ gc_timer
    \/ garbage_collector

SpecTasks == InitTasks /\ [][NextTasks]_vars

---------------------------------------------------------------------------
(* async_main as a thread that keeps running: the interpreter executes    *)
(* the next statement of the one coroutine that is not suspended, so every *)
(* step of async_main that is enabled is taken in the end. The requests    *)
(* of the user and the changes of the link are under no such obligation.   *)

\* the steps async_main and the functions it calls take by themselves
ThreadStep ==
    \/ boot
    \/ get_network_interface
    \/ activate_interface
    \/ connect_interface
    \/ scan
    \/ scanned
    \/ connect
    \/ await_connection
    \/ access_point_reset
    \/ deactivate_interface
    \/ rebuild
    \/ reset_return
    \/ main_start
    \/ synchronise_time
    \/ main_loop
    \/ dwell
    \/ provision
    \/ propagate
    \/ cleanup
    \/ terminate

\* what the user and the radio do
EnvironmentStep ==
    \/ \E ssid \in FormValues(Ssids), password \in FormValues(Passwords) :
          set_connection(ssid, password)
    \/ reset
    \/ link_change

NextLive == ThreadStep \/ EnvironmentStep

SpecLive == InitTasks /\ [][NextLive]_vars /\ WF_vars(ThreadStep)

---------------------------------------------------------------------------
(* Positions of a get_network_interface call *)

Acquiring == call.fn = "get_network_interface"

\* the call has returned and the caller has assigned WLAN, WLAN_MODE
AcquireReturned == Acquiring /\ pc \in {"main_start", "provision"}

StoredSsid == dynamic_get_secret(secrets, "WLAN_SSID")
StoredPassword == dynamic_get_secret(secrets, "WLAN_PASSWORD")
StoredApSsid == dynamic_get_secret(secrets, "AP_SSID")
StoredApPassword == dynamic_get_secret(secrets, "AP_PASSWORD")

---------------------------------------------------------------------------
\* C1: whenever get_network_interface starts on an existing secrets file in
\* which WLAN_SSID reads unset, the call scans for no network, requests no
\* connection, lets no exception out and returns access-point mode.
C1_UnsetSsidNeverScans ==
    (Acquiring /\ fileExists /\ call.entry_ssid.isNone)
        => /\ call.scans = 0
           /\ call.connects = 0
           /\ raised = "none"
           /\ AcquireReturned => WLAN_MODE = AP_IF

\* C2: however connect_interface fails, get_network_interface requests no
\* second connection, calls access_point_reset, returns access-point mode
\* and lets no exception out.
C2_EveryFailureFallsBack ==
    (Acquiring /\ call.failure # "none")
        => /\ call.connects <= 1
           /\ call.resets = 1
           /\ raised = "none"
           /\ AcquireReturned => WLAN_MODE = AP_IF

\* C3: when the scan result does not hold the stored SSID, connect_interface
\* raises WLANConnectionError without a connect request and
\* get_network_interface calls access_point_reset exactly once.
C3_UnavailableSsidFallsBackOnce ==
    (Acquiring /\ call.shown = "no")
        => /\ call.connects = 0
           /\ raised = "none"
           /\ call.resets <= 1
           /\ pc # "scanned" => (call.failure = "ssid unavailable" /\ call.resets = 1)
           /\ AcquireReturned => WLAN_MODE = AP_IF

C3_Witness ==
    AcquireReturned /\ call.shown = "no" /\ call.resets = 1 /\ WLAN_MODE = AP_IF

\* C4: get_network_interface returns station mode exactly when the SSID was
\* set, the scan showed it, the connect request was taken and a poll saw
\* the connection; it then returns the interface it constructed, connected,
\* and has not called access_point_reset.
C4_StationExactlyOnSuccess ==
    AcquireReturned
        => /\ (WLAN_MODE = STA_IF)
                <=> (/\ ~call.entry_ssid.isNone
                     /\ call.shown = "yes"
                     /\ call.connects = 1
                     /\ call.connected)
           /\ WLAN_MODE = STA_IF
                => /\ call.resets = 0
                   /\ call.built = 1
                   /\ call.failure = "none"
                   /\ WLAN = iface
                   /\ WLAN.mode = STA_IF

C4_Witness ==
    AcquireReturned /\ WLAN_MODE = STA_IF /\ call.connected /\ call.resets = 0

\* C5: when get_network_interface starts with a WLAN_SSID and returns
\* access-point mode, WLAN_SSID and WLAN_PASSWORD read as they did on entry.
C5_FallbackKeepsStationSecrets ==
    (AcquireReturned /\ ~call.entry_ssid.isNone /\ WLAN_MODE = AP_IF)
        => /\ StoredSsid = call.entry_ssid
           /\ StoredPassword = call.entry_password

\* C6: get_network_interface started with all four secrets unset returns
\* access-point mode on an interface configured with PICO-W-<HEXID> and
\* <HEXID>, and the store then holds those two values.
C6_FirstBootAccessPoint ==
    (/\ Acquiring
     /\ call.entry_ssid.isNone /\ call.entry_password.isNone
     /\ call.entry_ap_ssid.isNone /\ call.entry_ap_password.isNone)
        => /\ raised = "none"
           /\ AcquireReturned
                => /\ WLAN_MODE = AP_IF
                   /\ WLAN.mode = AP_IF
                   /\ WLAN.ssid = Str(<<"PICO-W-">> \o PICO_ID(uid))
                   /\ WLAN.password = Str(PICO_ID(uid))
                   /\ StoredApSsid = WLAN.ssid
                   /\ StoredApPassword = WLAN.password

---------------------------------------------------------------------------
(* access_point_reset called twice, the second time with the interface the *)
(* first call returned                                                     *)

\* the files get_network_interface leaves behind (lines 240-259)
DeclaredFiles(id) ==
    {StationReset(ApDeclared(f, id), dynamic_get_secret(f, "WLAN_SSID")) :
        f \in InitialFiles(id)}

\* the interfaces get_network_interface hands to access_point_reset, and
\* the station async_main hands to it (main.py line 339)
HeldInterfaces(lines, id) ==
    LET ap == ApCredentials(lines, id)
    IN  {[NewInterface(m, ap.ssid, ap.password) EXCEPT !.up = TRUE] :
            m \in {STA_IF, AP_IF}}
        \cup {[NewInterface(STA_IF, ap.ssid, ap.password)
                    EXCEPT !.up = TRUE, !.link = TRUE]}

\* WLAN, WLAN_MODE = access_point_reset(WLAN, verbose), once more
reset_again ==
    /\ pc = "reset_again"
    /\ iface' = WLAN
    /\ call' = [call EXCEPT !.resets = @ + 1]
    /\ pc' = "access_point_reset"
    /\ ret' = <<"exit">>
    /\ UNCHANGED <<fileExists, secrets, uid, WLAN, WLAN_MODE, poll, raised,
                   http, posts>>
    /\ inflight' = <<"access_point_reset">>
    /\ UNCHANGED <<async_events, gc, app>>

InitReset ==
    /\ uid \in DeviceIds
    /\ fileExists = TRUE
    /\ secrets \in DeclaredFiles(uid)
    /\ iface \in HeldInterfaces(secrets, uid)
    /\ WLAN = iface
    /\ WLAN_MODE = iface.mode
    /\ pc = "access_point_reset"
    /\ ret = <<"reset_again">>
    /\ poll = 0
    /\ call = [Entered(fileExists, secrets) EXCEPT
                    !.fn = "access_point_reset", !.resets = 1]
    /\ raised = "none"
    /\ http = NoRequest
    /\ posts = 0
    /\ async_events = [connection_issue |-> FALSE]
    /\ gc = "none"
    /\ app = "none"
    /\ inflight = <<"access_point_reset">>

NextReset ==
    \/ access_point_reset
    \/ deactivate_interface
    \/ rebuild
    \/ activate_interface
    \/ reset_return
    \/ reset_again

SpecReset == InitReset /\ [][NextReset]_vars

\* C7: of two access_point_reset calls in succession, the second on the
\* interface the first returned, each returns an AP_IF interface, both
\* configured with the same SSID and password, and AP_SSID and AP_PASSWORD
\* read throughout as they did before the first call.
C7_ResetTwiceSameAccessPoint ==
    /\ pc = "reset_return" => iface.mode = AP_IF
    /\ (pc = "reset_return" /\ call.resets = 2)
            => /\ WLAN_MODE = AP_IF
               /\ WLAN.mode = AP_IF
               /\ iface.ssid = WLAN.ssid
               /\ iface.password = WLAN.password
    /\ StoredApSsid = call.entry_ap_ssid
    /\ StoredApPassword = call.entry_ap_password

C7_Witness ==
    /\ pc = "reset_return" /\ call.resets = 2
    /\ iface.mode = AP_IF /\ WLAN.mode = AP_IF
    /\ ~iface.ssid.isNone /\ iface.ssid = WLAN.ssid

\* the steps of an access_point_reset call
Resetting ==
    \/ pc \in {"access_point_reset", "rebuild", "reset_return"}
    \/ /\ pc \in {"deactivate_interface", "activate_interface"}
       /\ Head(ret) \in {"rebuild", "reset_return"}

\* the new interface of access_point_reset has been configured
Rebuilt == pc = "activate_interface" /\ Head(ret) = "reset_return"

Reported(w) == {[w EXCEPT !.link = connected] : connected \in BOOLEAN}

\* C9: connection_issue is true for AP_IF whatever isconnected() answers,
\* true for STA_IF when it answers false and false for STA_IF when it
\* answers true; async_main branches on it accordingly, and the steps that
\* evaluate it leave the interface and the secrets file as they were.
C9_IssueTable ==
    \A w \in Reported(WLAN) :
        /\ connection_issue(w, AP_IF)
        /\ connection_issue(w, STA_IF) <=> ~w.link

C9_IssueChecked ==
    (pc \in {"main_loop", "dwell", "provision"} /\ pc' # pc)
        => /\ UNCHANGED <<WLAN, WLAN_MODE, fileExists, secrets>>
           /\ pc' \in {"dwell", "serving", "access_point_reset"}
                => (WLAN_MODE = AP_IF \/ (WLAN_MODE = STA_IF /\ ~WLAN.link))
           /\ (pc' = "main_loop" /\ pc = "dwell")
                => (WLAN_MODE = STA_IF /\ WLAN.link)

C9_IssueIsPureTable == [](C9_IssueTable) /\ [][C9_IssueChecked]_vars

C9_Witness ==
    pc = "dwell" /\ WLAN_MODE = STA_IF /\ isconnected(WLAN)
        /\ ~connection_issue(WLAN, WLAN_MODE)

\* a POST /connection without an SSID has just been answered
BlankSsidPosted ==
    http.route = "/connection" /\ (http.ssid.isNone \/ http.ssid.s = <<>>)

SsidPosted ==
    http.route = "/connection" /\ ~http.ssid.isNone /\ http.ssid.s # <<>>

\* C11: a POST /connection with a non-empty input-ssid is answered with a
\* 2xx status, and afterwards WLAN_SSID reads the submitted SSID and
\* WLAN_PASSWORD the submitted password (unset when that was empty or
\* missing), whatever text the two values hold.
C11_PostStoresBothValues ==
    SsidPosted
        => /\ http.status \in 200..299
           /\ StoredSsid = http.ssid
           /\ StoredPassword = Normal(http.password)

\* C12: when the check after the dwell finds no connection issue, async_main
\* goes back to the head of the main loop: the event keeps its flag,
\* neither access_point_reset nor get_network_interface is called, the
\* server is not started, and WLAN and WLAN_MODE are as they were.
C12_ResolvedDwellStep ==
    (pc = "dwell" /\ ~connection_issue(WLAN, WLAN_MODE) /\ pc' # pc)
        => /\ pc' = "main_loop"
           /\ async_events' = async_events
           /\ inflight' = <<>> /\ call' = call
           /\ app' # "serving"
           /\ WLAN' = WLAN /\ WLAN_MODE' = WLAN_MODE

C12_ResolvedDwellContinues == [][C12_ResolvedDwellStep]_vars

C12_Witness ==
    /\ pc = "dwell" /\ WLAN_MODE = STA_IF /\ isconnected(WLAN)
    /\ async_events.connection_issue

\* C13: whenever the Microdot server is serving, WLAN_MODE is AP_IF and the
\* interface async_main holds is an access point.
C13_ServingOnlyAsAccessPoint ==
    (pc = "serving" \/ app = "serving")
        => (WLAN_MODE = AP_IF /\ WLAN.mode = AP_IF)

\* an interface that is no more: never constructed, or deactivated and
\* released
TornDown(w) == w.mode = "none" \/ (~w.up /\ w.released)

\* C14: whenever get_network_interface constructs its interface, the one
\* async_main holds has been deactivated and released; whenever
\* access_point_reset constructs one, the one it was handed has been.
C14_ConstructsAfterTeardown ==
    /\ (pc = "get_network_interface" /\ pc' = "activate_interface")
            => TornDown(WLAN)
    /\ (pc = "rebuild" /\ pc' = "activate_interface") => ~iface.up

C14_OneInterfaceAtATime == [][C14_ConstructsAfterTeardown]_vars

\* the try statement of line 322 has been entered: app exists (line 321)
InLoop == app # "none"

\* C15: an exception raised inside the main loop ends async_main through the
\* finally block: app.shutdown() first, then WLAN.disconnect(),
\* deactivate_interface(WLAN) and WLAN.deinit(), in this order, before
\* async_main returns.
C15_CleanupOrder ==
    /\ (pc = "propagate" /\ InLoop /\ pc' # pc) => pc' = "cleanup"
    /\ (pc = "cleanup" /\ pc' # pc)
            => /\ app' = "idle" /\ ~iface'.link
               /\ pc' = "deactivate_interface" /\ ret' = <<"terminate">>
               /\ iface'.released = WLAN.released
    /\ (pc = "terminate" /\ pc' # pc)
            => /\ app = "idle" /\ ~iface.link /\ ~iface.up
               /\ pc' = "exit" /\ WLAN'.released
    /\ (InLoop /\ pc' = "exit" /\ pc # "exit") => pc = "terminate"

C15_Cleaned ==
    (pc = "exit" /\ InLoop)
        => (app = "idle" /\ ~WLAN.link /\ ~WLAN.up /\ WLAN.released)

C15_LoopExitRunsCleanup == [](C15_Cleaned) /\ [][C15_CleanupOrder]_vars

C15_Witness ==
    /\ pc = "exit" /\ raised = "KeyboardInterrupt"
    /\ WLAN.mode = AP_IF /\ WLAN.released /\ posts > 0

\* get_network_interface or access_point_reset is between two polls of
\* activate_interface, deactivate_interface or connect_interface
BetweenPolls ==
    /\ pc \in {"activate_interface", "deactivate_interface",
               "await_connection"}
    /\ poll > 0
    /\ inflight # <<>>

\* C16: between two polls of a connectivity operation a due
\* garbage_collector run can be scheduled.
C16_PollsYieldToGarbageCollector ==
    (BetweenPolls /\ gc = "due") => ENABLED garbage_collector

\* the calls of name in progress
InProgress(name) == Cardinality({i \in DOMAIN inflight : inflight[i] = name})

Operations ==
    {"get_network_interface", "connect_interface", "access_point_reset"}

\* C17: at most one get_network_interface, one connect_interface and one
\* access_point_reset are in progress at a time, none while the server
\* serves, and get_network_interface of line 354 is entered only once
\* microdot_server has returned.
C17_OneOperationAtATime ==
    /\ \A name \in Operations : InProgress(name) <= 1
    /\ \A i \in DOMAIN inflight : inflight[i] \in Operations
    /\ pc \in {"get_network_interface", "connect_interface", "rebuild",
               "await_connection"} => inflight # <<>>
    /\ inflight # <<>> => app # "serving" /\ pc # "serving"

C17_Witness ==
    /\ inflight = <<"get_network_interface", "connect_interface">>
    /\ http.route = "/reset" /\ app = "idle" /\ pc = "await_connection"

\* connect_interface failed in one of its four ways
Failures == {"no credentials", "ssid unavailable", "rejected", "timeout"}

C18_Polls ==
    /\ pc = "await_connection" => poll <= ConnectPolls
    /\ call.failure = "timeout" => call.exception = "StopIteration"
    /\ call.failure \in Failures \ {"timeout"}
            => call.exception = "WLANConnectionError"
    /\ call.failure \in Failures => call.resets = 1 /\ ~call.connected

C18_TimeoutStep ==
    /\ (pc = "await_connection" /\ pc' = pc) => poll' = poll + 1
    /\ (call.failure # "timeout" /\ call'.failure = "timeout")
            => /\ pc = "await_connection" /\ poll = ConnectPolls
               /\ pc' = "access_point_reset"

Activating == pc \in {"activate_interface", "deactivate_interface"}

C19_Bounded == Activating => poll \in 0..ActivePolls

C19_PollStep ==
    Activating =>
        /\ raised' = raised
        /\ \/ \* one more check, after a check that did not confirm
              /\ pc' = pc /\ ret' = ret
              /\ poll < ActivePolls /\ poll' = poll + 1
           \/ \* the function returns to its caller
              /\ pc' = Head(ret) /\ ret' = Tail(ret) /\ poll' = 0
        /\ poll = ActivePolls => pc' = Head(ret)

StoreValues == FormValues(Ssids \cup Passwords)

\* what dynamic_get_secret returns for name on the file held now
Stored(name) == IF fileExists THEN dynamic_get_secret(secrets, name) ELSE None

SecretNameSet == {SecretNames[i] : i \in DOMAIN SecretNames}

\* C20: on the file as it is, dynamic_set_secret(name, value) followed by
\* dynamic_get_secret(name) gives value, None for '' and None, and
\* dynamic_get_secret of every other name gives what it gave before.
C20_SetThenGet ==
    \A name \in SecretNameSet, value \in StoreValues :
        LET after == dynamic_set_secret(fileExists, secrets, name, value)
        IN  /\ dynamic_get_secret(after, name) = Normal(value)
            /\ \A other \in SecretNameSet \ {name} :
                   fileExists => dynamic_get_secret(after, other) = Stored(other)

\* the file holds no assignment to name
NoLine(lines, name) == \A i \in DOMAIN lines : lines[i].name # name

\* C21: dynamic_get_secret(name) returns None when the file has no line for
\* name, and no dynamic_get_secret call fails, the file missing included.
C21_UnwrittenReadsNone ==
    /\ \A name \in SecretNameSet :
          (fileExists /\ NoLine(secrets, name))
              => dynamic_get_secret(secrets, name) = None
    /\ raised # "ImportError"

\* C22: dynamic_set_secret(name, value) on the file as it is changes no
\* line of another name, and adds at most one line.
C22_SetTouchesOwnLineOnly ==
    \A name \in SecretNameSet, value \in StoreValues :
        LET before == create_secrets(fileExists, secrets)
            after == dynamic_set_secret(fileExists, secrets, name, value)
        IN  /\ Len(after) \in {Len(before), Len(before) + 1}
            /\ Len(after) = Len(before) + 1 <=> NoLine(before, name)
            /\ \A i \in DOMAIN before :
                   before[i].name # name => after[i] = before[i]

\* async_main has made its first use of the secrets: the reads at the head
\* of get_network_interface
FirstUseMade == pc \notin {"boot", "get_network_interface"}

\* C23: a secrets file missing at the first use is there after it, created
\* by the store.
C23_CreatedOnFirstUse == FirstUseMade => fileExists

\* the first get_network_interface call has returned: async_main holds an
\* interface
FirstAcquired == WLAN_MODE # "none"

\* w is not an access point, or one configured with the generated values
GeneratedAccessPoint(w) ==
    w.mode = AP_IF
        => w.ssid = GeneratedSsid(uid) /\ w.password = GeneratedPassword(uid)

\* C24: once the first get_network_interface call has returned, AP_SSID and
\* AP_PASSWORD read as the generated values, and every access-point
\* interface is configured with them.
C24_AccessPointCredentialsKept ==
    FirstAcquired
        => /\ StoredApSsid = GeneratedSsid(uid)
           /\ StoredApPassword = GeneratedPassword(uid)
           /\ GeneratedAccessPoint(WLAN)
           /\ GeneratedAccessPoint(iface)

C24_Witness ==
    /\ FirstAcquired /\ posts > 0 /\ http.route = "/reset"
    /\ pc = "provision" /\ call.resets = 1
    /\ WLAN.mode = AP_IF /\ WLAN.ssid = GeneratedSsid(uid)

\* C25: a get_network_interface call that found WLAN_SSID unset has, when it
\* returns, left WLAN_SSID and WLAN_PASSWORD both unset, and has asked for
\* no station connection.
C25_BlankSsidResetsStation ==
    (AcquireReturned /\ call.entry_ssid.isNone)
        => /\ StoredSsid.isNone /\ StoredPassword.isNone
           /\ call.scans = 0 /\ call.connects = 0

Synchronising == pc = "synchronise_time"

C26_Bounded == Synchronising => poll \in 0..SyncAttempts

C26_SyncStep ==
    /\ (~Synchronising /\ Synchronising')
            => /\ pc \in {"main_start", "provision"}
               /\ ~connection_issue(WLAN, WLAN_MODE)
               /\ poll' = 0
    /\ Synchronising
            => /\ raised' = "none"
               /\ \/ Synchronising' /\ poll < SyncAttempts /\ poll' = poll + 1
                  \/ pc' = "main_loop"
    /\ (Synchronising /\ poll = SyncAttempts) => pc' = "main_loop"

\* C26: synchronise_time is entered only from a connection_issue check that
\* gave False (lines 312 and 349), tries at most 30 times, and after 30
\* failures async_main goes on to the main loop with nothing raised.
C26_SynchroniseBounded == [](C26_Bounded) /\ [][C26_SyncStep]_vars

C26_Witness ==
    /\ Synchronising /\ poll = SyncAttempts
    /\ ret = <<"main_loop">> /\ http.route = "/reset"

\* a station interface that is connected
StationConnected == WLAN_MODE = STA_IF /\ isconnected(WLAN)

\* microdot_server is awaited on an access point that was asked to activate
ServingAccessPoint ==
    /\ app = "serving" /\ pc = "serving"
    /\ WLAN_MODE = AP_IF /\ WLAN.mode = AP_IF /\ WLAN.up

\* the check of line 330 found the issue still there
DwellFailed ==
    \/ pc = "access_point_reset" /\ inflight = <<"access_point_reset">>
    \/ pc = "provision" /\ WLAN_MODE = AP_IF

\* async_main has ended or an exception is on its way out
Fatal == raised # "none" \/ pc = "exit"

\* C27: once the check after the dwell has found the issue still there,
\* the server comes to serve on an access point unless an exception ends
\* async_main; and the device is again and again either a connected
\* station or a serving access point.
C27_EventuallyProvisioning ==
    /\ DwellFailed ~> (ServingAccessPoint \/ Fatal)
    /\ []<>(Fatal \/ StationConnected \/ ServingAccessPoint)

\* the check of line 330 is next and will find the issue still there
IssueSurvives == pc = "dwell" /\ connection_issue(WLAN, WLAN_MODE)

C28_DwellStep ==
    /\ (IssueSurvives /\ pc' # pc)
          => /\ ~async_events'.connection_issue
             /\ app' # "serving"
             /\ IF WLAN_MODE = STA_IF
                THEN /\ pc' = "access_point_reset" /\ iface' = WLAN
                     /\ inflight' = <<"access_point_reset">>
                ELSE /\ pc' = "provision" /\ inflight' = <<>>
                     /\ WLAN' = WLAN /\ iface' = iface /\ call' = call
    /\ (app # "serving" /\ app' = "serving")
          => /\ pc = "provision" /\ inflight = <<>>
             /\ ~async_events.connection_issue
             /\ call.fn # "get_network_interface"
                    => WLAN_MODE = AP_IF /\ WLAN.mode = AP_IF

C28_Cleared ==
    (app = "serving" \/ inflight = <<"access_point_reset">>)
        => ~async_events.connection_issue

\* C28: when the check after the dwell finds the issue still there, the
\* event is cleared first, access_point_reset is called exactly when
\* WLAN_MODE is STA_IF (an access point is left as it is), and the server
\* is started only after that.
C28_ClearResetServe == [](C28_Cleared) /\ [][C28_DwellStep]_vars

C28_Witness ==
    /\ pc = "provision" /\ call.fn = "access_point_reset"
    /\ ~async_events.connection_issue /\ app = "idle"
    /\ WLAN_MODE = AP_IF /\ WLAN.mode = AP_IF

\* an empty or absent value
Blank == {None, Str(<<>>)}

\* C29: dynamic_set_secret(name, value) with value '' or None on a file
\* without a line for name leaves name unset: dynamic_get_secret(name)
\* returns None.
C29_BlankOnMissingLineIsUnset ==
    \A name \in SecretNameSet, value \in Blank :
        NoLine(create_secrets(fileExists, secrets), name)
            => dynamic_get_secret(
                   dynamic_set_secret(fileExists, secrets, name, value),
                   name) = None

\* C30: a get_network_interface call on an existing secrets file ends by
\* returning, whatever the radio does, after at most 5 polls in
\* activate_interface and deactivate_interface and 30 in connect_interface.
C30_AcquireAlwaysReturns ==
    /\ (Acquiring /\ fileExists) => raised = "none"
    /\ Activating => poll <= ActivePolls
    /\ pc = "await_connection" => poll <= ConnectPolls

\* get_network_interface of line 354 is running or has just returned
Reacquiring ==
    /\ ret # <<>> /\ ret[Len(ret)] = "provision"
    /\ "get_network_interface" \in {inflight[i] : i \in DOMAIN inflight}

C31_ServerStep ==
    /\ (pc = "serving" /\ http'.route = "/connection" /\ http' # http)
          => pc' = "serving" /\ app' = "serving" /\ inflight' = <<>>
    /\ (pc = "serving" /\ pc' # "serving")
          => /\ http'.route = "/reset"
             /\ pc' = "get_network_interface" /\ app' = "idle"

\* C31: microdot_server returns to async_main only on GET /reset; POST
\* /connection, answered 205 or 400, leaves the server serving, so the
\* get_network_interface call of line 354 always follows a GET /reset.
C31_OnlyResetStopsServer ==
    [](Reacquiring => http.route = "/reset") /\ [][C31_ServerStep]_vars

C31_Witness ==
    /\ pc = "serving" /\ app = "serving"
    /\ http.route = "/connection" /\ http.status = 205

\* the last POST /connection carried a password
PasswordPosted ==
    http.route = "/connection" /\ ~http.password.isNone
        /\ http.password.s # <<>>

\* C32: a POST /connection without an SSID and with a password is answered
\* 400 and leaves the submitted password stored as WLAN_PASSWORD, where it
\* stays while the server serves.
C32_RejectedPostStoresPassword ==
    (BlankSsidPosted /\ PasswordPosted)
        => (http.status = 400 /\ StoredPassword = http.password)

\* C33: a get_network_interface call that found WLAN_SSID unset builds an
\* access point, fails in connect_interface on the missing SSID without a
\* scan, and returns the second access point, built by its one
\* access_point_reset call.
C33_UnsetSsidBuildsTwice ==
    (Acquiring /\ fileExists /\ call.entry_ssid.isNone)
        => /\ call.scans = 0 /\ raised = "none"
           /\ call.built >= 1 => call.failure \in {"none", "no credentials"}
           /\ AcquireReturned
                => /\ call.failure = "no credentials"
                   /\ call.built = 2 /\ call.resets = 1
                   /\ WLAN_MODE = AP_IF /\ WLAN.mode = AP_IF

---------------------------------------------------------------------------
(* get_network_interface on secrets files whose access-point credentials   *)
(* are absent, unset, the generated ones or ones of the user's choosing    *)

ApFiles(id) ==
    {a \o b \o c \o <<BareLine("WLAN_PASSWORD", None)>> :
        a \in OptionalLine("AP_SSID", {GeneratedSsid(id).s, <<"MyPico">>}),
        b \in OptionalLine("AP_PASSWORD", {GeneratedPassword(id).s, <<"mypass">>}),
        c \in {<<BareLine("WLAN_SSID", None)>>,
               <<QuotedLine("WLAN_SSID", Str(<<"HomeNet">>))>>}}

InitDeclare ==
    /\ uid \in DeviceIds
    /\ fileExists = TRUE
    /\ secrets \in ApFiles(uid)
    /\ WLAN = NoInterface
    /\ WLAN_MODE = "none"
    /\ iface = NoInterface
    /\ pc = "boot"
    /\ ret = <<>>
    /\ poll = 0
    /\ call = NoCall
    /\ raised = "none"
    /\ http = NoRequest
    /\ posts = 0
    /\ async_events = [connection_issue |-> FALSE]
    /\ gc = "none"
    /\ app = "none"
    /\ inflight = <<>>

NextDeclare ==
    \/ boot
    \/ get_network_interface
    \/ activate_interface

SpecDeclare == InitDeclare /\ [][NextDeclare]_vars

\* the lines of the file that assign to one of the names
LinesNamed(lines, names) ==
    {<<i, lines[i]>> : i \in {j \in DOMAIN lines : lines[j].name \in names}}

ApNames == {"AP_SSID", "AP_PASSWORD"}

C34_DeclareStep ==
    (pc = "get_network_interface" /\ pc' # pc)
        => IF StoredApSsid.isNone \/ StoredApPassword.isNone
           THEN /\ StoredApSsid' = GeneratedSsid(uid)
                /\ StoredApPassword' = GeneratedPassword(uid)
                /\ iface'.ssid = GeneratedSsid(uid)
                /\ iface'.password = GeneratedPassword(uid)
           ELSE /\ LinesNamed(secrets', ApNames) = LinesNamed(secrets, ApNames)
                /\ iface'.ssid = StoredApSsid
                /\ iface'.password = StoredApPassword

\* C34: get_network_interface writes the generated AP_SSID and AP_PASSWORD,
\* both, when one of the two reads unset, the one that was set included,
\* and writes neither when both are set.
C34_BothOrNeitherDeclared == [][C34_DeclareStep]_vars

C34_Witness ==
    /\ Acquiring /\ pc = "activate_interface"
    /\ call.entry_ap_ssid = Str(<<"MyPico">>) /\ call.entry_ap_password.isNone
    /\ StoredApSsid = GeneratedSsid(uid)
    /\ StoredApPassword = GeneratedPassword(uid)

\* async_main is in its main loop, outside the nested loop, with a
\* connected station
LoopConnected ==
    /\ pc \in {"main_loop", "dwell"}
    /\ WLAN_MODE = STA_IF /\ isconnected(WLAN)

\* C35: in the main loop, a connected station has the event set.
C35_ConnectedMeansSet == LoopConnected => async_events.connection_issue

====
